---- MODULE Spec2Model ----
(***************************************************************************)
(* Model of the firewall agent of agent/src/main.rs: the rule table behind *)
(* a mutex, check_connection, the periodic collect/send loop spawned by    *)
(* main, and main's wait for ctrl-c.                                       *)
(***************************************************************************)
EXTENDS Naturals, Integers, Sequences, FiniteSets, TLC

\* ------------------------------------------------------------------ bounds

\* Longest allow-list (Vec) of a rule that is enumerated.
MaxListLen == 2
\* Most allow-list entries, summed over all rules of an enumerated table.
MaxTableSize == 4
\* Most ticks of the interval that are followed.
MaxTicks == 8

\* ---------------------------------------------------------------- universes

Apps == {"mail", "example_app"}
Domains == {"smtp.example.com", "example.com"}
\* An IpAddr, as its four octets.
Ips == {<<203, 0, 113, 5>>, <<93, 184, 216, 34>>}
Protocols == {"smtp", "smtps"}

SeqsUpTo(S, n) == UNION {[1..k -> S] : k \in 0..n}

Range(v) == {v[i] : i \in 1..Len(v)}

\* The three allow-lists of a rule.
AllowLists ==
    [allowed_domains : SeqsUpTo(Domains, MaxListLen),
     allowed_ips : SeqsUpTo(Ips, MaxListLen),
     allowed_protocols : SeqsUpTo(Protocols, MaxListLen)]

ListsSize(l) ==
    Len(l.allowed_domains) + Len(l.allowed_ips) + Len(l.allowed_protocols)

BoundedLists == {l \in AllowLists : ListsSize(l) <= MaxTableSize}

\* struct FirewallRule
Rule(a, l) ==
    [app_name |-> a,
     allowed_domains |-> l.allowed_domains,
     allowed_ips |-> l.allowed_ips,
     allowed_protocols |-> l.allowed_protocols]

RECURSIVE TableSize(_)
TableSize(rs) ==
    IF DOMAIN rs = {} THEN 0
    ELSE LET a == CHOOSE x \in DOMAIN rs : TRUE
         IN ListsSize(rs[a]) + TableSize([x \in DOMAIN rs \ {a} |-> rs[x]])

PrefilledTable ==
    [a \in {"example_app"} |->
        [app_name |-> a, allowed_domains |-> <<"example.com">>,
         allowed_ips |-> << <<93, 184, 216, 34>> >>, allowed_protocols |-> <<"https">>]]

\* HashMap::new()
EmptyTable == [a \in {} |-> 0]

\* A HashMap<String, FirewallRule> with the rules f, each under its own name.
Table(f) == [a \in DOMAIN f |-> Rule(a, f[a])]

\* The arguments of one check_connection call.
Attempts == [app_name : Apps, domain : Domains, ip : Ips, protocol : Protocols]

\* main's example call.
MainAttempt ==
    [app_name |-> "example_app", domain |-> "example.com",
     ip |-> <<93, 184, 216, 34>>, protocol |-> "https"]

\* ------------------------------------------------------- check_connection

ContainsOrEmpty(v, x) == v = <<>> \/ \E i \in 1..Len(v) : v[i] = x

\* Vec::contains: some element equals x.
Contains(v, x) == \E i \in 1..Len(v) : v[i] = x

\* HashMap::get
Get(rs, k) == IF k \in DOMAIN rs THEN <<rs[k]>> ELSE <<>>

check_connection_failopen(rs, a) ==
    LET found == Get(rs, a.app_name)
    IN  IF found # <<>>
        THEN /\ Contains(found[1].allowed_domains, a.domain)
             /\ Contains(found[1].allowed_ips, a.ip)
             /\ Contains(found[1].allowed_protocols, a.protocol)
        ELSE TRUE

check_connection_any(rs, a) ==
    LET found == Get(rs, a.app_name)
    IN  IF found # <<>>
        THEN \/ Contains(found[1].allowed_domains, a.domain)
             \/ Contains(found[1].allowed_ips, a.ip)
             \/ Contains(found[1].allowed_protocols, a.protocol)
        ELSE FALSE

\* check_connection as a function of the table and the arguments.
check_connection(rs, a) ==
    LET found == Get(rs, a.app_name)
    IN  IF found # <<>>
        THEN /\ Contains(found[1].allowed_domains, a.domain)
             /\ Contains(found[1].allowed_ips, a.ip)
             /\ Contains(found[1].allowed_protocols, a.protocol)
        ELSE FALSE

\* -------------------------------------------------------------------- tasks

MainTask == "main"
LoopTask == "loop"
NoTask == "none"
\* Tasks that call check_connection on the shared agent, one per connection attempt.
Callers == {"c1", "c2"}
Tasks == Callers \cup {MainTask}

\* -------------------------------------------------------------------- state

NoCall == [app_name |-> "", domain |-> "", ip |-> <<>>, protocol |-> ""]

VARIABLES
    rules,      \* FirewallAgent.rules: the HashMap inside the Mutex
    holder,     \* the task holding the Mutex's guard (NoTask: unlocked)
    pc,         \* per task: where it is inside check_connection
    args,       \* per task: the arguments of its check_connection call
    acc,        \* per task: the value of the call's result expression
    seen,       \* per task: the contents the table had while the call read it
    poisoned,   \* the Mutex is poisoned: a task panicked while holding its guard
    call,       \* the arguments of the last check_connection applied (NoCall: none)
    verdict,    \* what that call returned
    mainpc,     \* where main is
    sigint,     \* an interrupt (ctrl-c) was sent to the process
    allowed,    \* main's local `allowed`
    evaluated,  \* the evaluations main has made, in order
    looppc,     \* where the spawned loop is
    ticks,      \* ticks of the interval so far (counted up to MaxTicks)
    sends,      \* completed send_logs_to_server calls (counted up to MaxTicks)
    logBuffer,  \* the events the agent holds for shipment
    batch,      \* the events collect_logs handed to the send step
    delivered,  \* the events send_logs_to_server delivered to the collector
    overflow    \* the events counted as dropped

lockVars == <<holder, pc, args, acc, seen, poisoned>>
fnVars == <<call, verdict>>
mainVars == <<mainpc, sigint, allowed, evaluated>>
loopVars == <<looppc, ticks, sends>>
logVars == <<logBuffer, batch, delivered, overflow>>
vars == <<rules, lockVars, fnVars, mainVars, loopVars, logVars>>

\* FirewallAgent::new() and nothing called yet.
Fresh ==
    /\ holder = NoTask
    /\ pc = [t \in Tasks |-> "idle"]
    /\ args = [t \in Tasks |-> NoCall]
    /\ acc = [t \in Tasks |-> FALSE]
    /\ seen = [t \in Tasks |-> {}]
    /\ poisoned = FALSE
    /\ call = NoCall
    /\ verdict = FALSE
    /\ sigint = FALSE
    /\ allowed = FALSE
    /\ evaluated = <<>>
    /\ ticks = 0
    /\ sends = 0
    /\ logBuffer = <<>>
    /\ batch = <<>>
    /\ delivered = <<>>
    /\ overflow = 0

\* The process has ended: main returned and the runtime is gone, or the
\* interrupt's default action ended it.
Over == mainpc \in {"exited", "killed"}

\* ---------------------------------------- check_connection, step by step

Reading == {"get", "domains", "ips", "protocols"}

\* Where a task holds the guard: from lock() to the end of the function.
Holding == Reading \cup {"unlock"}

LockSkipped(t) ==
    /\ pc[t] = "lock"
    /\ pc' = [pc EXCEPT ![t] = "get"]
    /\ seen' = [seen EXCEPT ![t] = {rules}]
    /\ UNCHANGED <<rules, holder, args, acc, poisoned>>

\* let rules = self.rules.lock().unwrap();
\* lock() waits for the guard; on a poisoned Mutex it is Err and unwrap() panics.
Lock(t) ==
    /\ pc[t] = "lock"
    /\ holder = NoTask
    /\ IF poisoned
       THEN /\ pc' = [pc EXCEPT ![t] = "panicked"]
            /\ UNCHANGED <<holder, seen>>
       ELSE /\ holder' = t
            /\ pc' = [pc EXCEPT ![t] = "get"]
            /\ seen' = [seen EXCEPT ![t] = {rules}]
    /\ UNCHANGED <<rules, args, acc, poisoned>>

GetRuleRemoves(t) ==
    /\ pc[t] = "get"
    /\ rules' = [a \in DOMAIN rules \ {args[t].app_name} |-> rules[a]]
    /\ IF Get(rules, args[t].app_name) # <<>>
       THEN pc' = [pc EXCEPT ![t] = "domains"] /\ acc' = acc
       ELSE pc' = [pc EXCEPT ![t] = "unlock"] /\ acc' = [acc EXCEPT ![t] = FALSE]
    /\ UNCHANGED <<holder, args, seen, poisoned>>

\* if let Some(rule) = rules.get(app_name) { .. } else { false }
GetRule(t) ==
    /\ pc[t] = "get"
    /\ IF Get(rules, args[t].app_name) # <<>>
       THEN pc' = [pc EXCEPT ![t] = "domains"] /\ acc' = acc
       ELSE pc' = [pc EXCEPT ![t] = "unlock"] /\ acc' = [acc EXCEPT ![t] = FALSE]
    /\ UNCHANGED <<rules, holder, args, seen, poisoned>>

\* The field of the rule that `rule` refers to, read from the table.
Field(t, f) ==
    LET found == Get(rules, args[t].app_name)
    IN  IF found # <<>> THEN found[1][f] ELSE <<>>

\* rule.allowed_domains.contains(&domain.to_string()) &&
ContainsDomain(t) ==
    /\ pc[t] = "domains"
    /\ IF Contains(Field(t, "allowed_domains"), args[t].domain)
       THEN pc' = [pc EXCEPT ![t] = "ips"] /\ acc' = acc
       ELSE pc' = [pc EXCEPT ![t] = "unlock"] /\ acc' = [acc EXCEPT ![t] = FALSE]
    /\ UNCHANGED <<rules, holder, args, seen, poisoned>>

\* rule.allowed_ips.contains(&ip) &&
ContainsIp(t) ==
    /\ pc[t] = "ips"
    /\ IF Contains(Field(t, "allowed_ips"), args[t].ip)
       THEN pc' = [pc EXCEPT ![t] = "protocols"] /\ acc' = acc
       ELSE pc' = [pc EXCEPT ![t] = "unlock"] /\ acc' = [acc EXCEPT ![t] = FALSE]
    /\ UNCHANGED <<rules, holder, args, seen, poisoned>>

ContainsProtocolPanics(t) ==
    /\ pc[t] = "protocols"
    /\ pc' = [pc EXCEPT ![t] = "panicked"]
    /\ poisoned' = TRUE
    /\ holder' = NoTask
    /\ UNCHANGED <<rules, args, acc, seen>>

\* rule.allowed_protocols.contains(&protocol.to_string())
ContainsProtocol(t) ==
    /\ pc[t] = "protocols"
    /\ acc' = [acc EXCEPT
                 ![t] = Contains(Field(t, "allowed_protocols"), args[t].protocol)]
    /\ pc' = [pc EXCEPT ![t] = "unlock"]
    /\ UNCHANGED <<rules, holder, args, seen, poisoned>>

UnlockLeaks(t) ==
    /\ pc[t] = "unlock"
    /\ pc' = [pc EXCEPT ![t] = "ret"]
    /\ UNCHANGED <<rules, holder, args, acc, seen, poisoned>>

\* The end of the function: the guard is dropped and the value returned.
Unlock(t) ==
    /\ pc[t] = "unlock"
    /\ holder' = NoTask
    /\ pc' = [pc EXCEPT ![t] = "ret"]
    /\ UNCHANGED <<rules, args, acc, seen, poisoned>>

\* One step of task t inside check_connection.
CheckStep(t) ==
    /\ \/ Lock(t)
       \/ GetRule(t)
       \/ ContainsDomain(t)
       \/ ContainsIp(t)
       \/ ContainsProtocol(t)
       \/ Unlock(t)
    /\ UNCHANGED <<fnVars, mainVars, loopVars, logVars>>

\* ------------------------------------------------------------------- main

\* agent.check_connection(app_name, domain, ip, protocol)
MainCall ==
    /\ mainpc = "check"
    /\ pc[MainTask] = "idle"
    /\ pc' = [pc EXCEPT ![MainTask] = "lock"]
    /\ args' = [args EXCEPT ![MainTask] = MainAttempt]
    /\ UNCHANGED <<rules, holder, acc, seen, poisoned, fnVars, mainVars, loopVars, logVars>>

\* let allowed = .. .await; println!(..)
MainPrint ==
    /\ mainpc = "check"
    /\ pc[MainTask] = "ret"
    /\ allowed' = acc[MainTask]
    /\ evaluated' = Append(evaluated,
                           [attempt |-> args[MainTask], verdict |-> acc[MainTask]])
    /\ pc' = [pc EXCEPT ![MainTask] = "idle"]
    /\ mainpc' = "spawn"
    /\ UNCHANGED <<rules, holder, args, acc, seen, poisoned, fnVars, sigint, loopVars,
                   logVars>>

\* tokio::spawn(async move { .. })
Spawn ==
    /\ mainpc = "spawn"
    /\ looppc = "unspawned"
    /\ looppc' = "tick"
    /\ mainpc' = "ctrl_c"
    /\ UNCHANGED <<rules, lockVars, fnVars, sigint, allowed, evaluated,
                   ticks, sends, logVars>>

\* tokio::signal::ctrl_c(): the first poll installs the interrupt handler.
CtrlCListen ==
    /\ mainpc = "ctrl_c"
    /\ mainpc' = "wait"
    /\ UNCHANGED <<rules, lockVars, fnVars, sigint, allowed, evaluated,
                   loopVars, logVars>>

\* The handler is installed from main's first poll of ctrl_c() on.
HandlerInstalled == mainpc \in {"wait", "returned", "exited"}

\* An interrupt arrives: the listener is notified, or, with no handler
\* installed yet, the default action ends the process where it is.
Sigint ==
    /\ ~sigint
    /\ ~Over
    /\ sigint' = TRUE
    /\ mainpc' = IF HandlerInstalled THEN mainpc ELSE "killed"
    /\ UNCHANGED <<rules, lockVars, fnVars, allowed, evaluated, loopVars, logVars>>

\* ctrl_c().await.unwrap() completes and main returns.
MainReturn ==
    /\ mainpc = "wait"
    /\ sigint
    /\ mainpc' = "returned"
    /\ UNCHANGED <<rules, lockVars, fnVars, sigint, allowed, evaluated,
                   loopVars, logVars>>

CancelAwaitsLoop ==
    /\ mainpc = "returned"
    /\ looppc = "finished"
    /\ looppc' = "cancelled"
    /\ UNCHANGED <<rules, lockVars, fnVars, mainVars, ticks, sends, logVars>>

\* The runtime is dropped when main has returned: a task suspended at an
\* await is dropped there, a task being polled runs on to its next await.
Cancel ==
    /\ mainpc = "returned"
    /\ looppc = "tick"
    /\ looppc' = "cancelled"
    /\ UNCHANGED <<rules, lockVars, fnVars, mainVars, ticks, sends, logVars>>

\* The runtime's workers have stopped: the process exits.
Exit ==
    /\ mainpc = "returned"
    /\ looppc = "cancelled"
    /\ mainpc' = "exited"
    /\ UNCHANGED <<rules, lockVars, fnVars, sigint, allowed, evaluated,
                   loopVars, logVars>>

\* --------------------------------------------------------------- the loop

Count(n) == IF n < MaxTicks THEN n + 1 ELSE n

\* interval.tick().await completes.
Tick ==
    /\ looppc = "tick"
    /\ mainpc \notin {"returned", "exited", "killed"}
    /\ looppc' = "collect"
    /\ ticks' = Count(ticks)
    /\ UNCHANGED <<rules, lockVars, fnVars, mainVars, sends, logVars>>

collect_logs_locking ==
    /\ looppc = "collect"
    /\ ~Over
    /\ holder = NoTask
    /\ holder' = LoopTask
    /\ looppc' = "send"
    /\ UNCHANGED <<rules, pc, args, acc, seen, poisoned, fnVars, mainVars, ticks, sends,
                   logVars>>

\* agent.collect_logs().await: the body is empty.
collect_logs ==
    /\ looppc = "collect"
    /\ ~Over
    /\ looppc' = "send"
    /\ UNCHANGED <<rules, lockVars, fnVars, mainVars, ticks, sends, logVars>>

send_logs_hangs ==
    /\ looppc = "send"
    /\ ~Over
    /\ looppc' = "send"
    /\ sends' = Count(sends)
    /\ UNCHANGED <<rules, lockVars, fnVars, mainVars, ticks, logVars>>

\* agent.send_logs_to_server().await: the body is empty.
send_logs_to_server ==
    /\ looppc = "send"
    /\ ~Over
    /\ looppc' = "tick"
    /\ sends' = Count(sends)
    /\ UNCHANGED <<rules, lockVars, fnVars, mainVars, ticks, logVars>>

\* ------------------------------------------------------------ the program

Init ==
    /\ Fresh
    /\ rules = EmptyTable
    /\ mainpc = "check"
    /\ looppc = "unspawned"

Next ==
    \/ MainCall
    \/ CheckStep(MainTask)
    \/ MainPrint
    \/ Spawn
    \/ CtrlCListen
    \/ Sigint
    \/ MainReturn
    \/ Cancel
    \/ Exit
    \/ Tick
    \/ collect_logs
    \/ send_logs_to_server

Spec == Init /\ [][Next]_vars

\* The runtime polls every task that can run, the interval's timer fires, and
\* a process that can exit does; the interrupt is the environment's and may
\* never come.
Fairness ==
    /\ WF_vars(MainCall)
    /\ WF_vars(CheckStep(MainTask))
    /\ WF_vars(MainPrint)
    /\ WF_vars(Spawn)
    /\ WF_vars(CtrlCListen)
    /\ WF_vars(MainReturn)
    /\ WF_vars(Cancel)
    /\ WF_vars(Exit)
    /\ WF_vars(Tick)
    /\ WF_vars(collect_logs)
    /\ WF_vars(send_logs_to_server)

SpecLive == Spec /\ Fairness

\* ------------------------------------------- check_connection, applied

InitCheck ==
    /\ Fresh
    /\ \E A \in SUBSET Apps : \E f \in [A -> BoundedLists] :
          /\ TableSize(f) <= MaxTableSize
          /\ rules = Table(f)
    /\ mainpc = "check"
    /\ looppc = "unspawned"

\* One call of check_connection on the table.
Evaluate(a) ==
    /\ call' = a
    /\ verdict' = check_connection(rules, a)
    /\ UNCHANGED <<rules, lockVars, mainVars, loopVars, logVars>>

NextCheck == \E a \in Attempts : Evaluate(a)

SpecCheck == InitCheck /\ [][NextCheck]_vars

\* ------------------------------------------- the agent under its callers

\* An intercepted connection attempt: a caller starts check_connection.
CallerCall(t, a) ==
    /\ pc[t] = "idle"
    /\ pc' = [pc EXCEPT ![t] = "lock"]
    /\ args' = [args EXCEPT ![t] = a]
    /\ UNCHANGED <<rules, holder, acc, seen, poisoned, fnVars, mainVars, loopVars, logVars>>

\* The caller has its verdict and is free for the next attempt.
CallerReturn(t) ==
    /\ pc[t] = "ret"
    /\ pc' = [pc EXCEPT ![t] = "idle"]
    /\ args' = [args EXCEPT ![t] = NoCall]
    /\ acc' = [acc EXCEPT ![t] = FALSE]
    /\ seen' = [seen EXCEPT ![t] = {}]
    /\ UNCHANGED <<rules, holder, poisoned, fnVars, mainVars, loopVars, logVars>>

\* The rules the provisioning collaborator installs.
ProvisionedRules ==
    {[app_name |-> "mail", allowed_domains |-> <<"smtp.example.com">>,
      allowed_ips |-> << <<203, 0, 113, 5>> >>, allowed_protocols |-> <<"smtps">>],
     [app_name |-> "mail", allowed_domains |-> <<"example.com">>,
      allowed_ips |-> << <<93, 184, 216, 34>> >>, allowed_protocols |-> <<"smtp">>]}

\* What the calls that are reading the table have seen of it, after a change.
Observe(rs) == [t \in Tasks |-> IF pc[t] \in Reading THEN seen[t] \cup {rs} ELSE seen[t]]

\* upsert_rule(rule): the rule replaces the entry of its app_name, under the lock.
upsert_rule(r) ==
    /\ holder = NoTask
    /\ rules' = [a \in DOMAIN rules \cup {r.app_name} |->
                    IF a = r.app_name THEN r ELSE rules[a]]
    /\ seen' = Observe(rules')
    /\ UNCHANGED <<holder, pc, args, acc, poisoned, fnVars, mainVars, loopVars, logVars>>

\* remove_rule(app_name): the entry is removed, under the lock; no entry, no change.
remove_rule(k) ==
    /\ holder = NoTask
    /\ rules' = [a \in DOMAIN rules \ {k} |-> rules[a]]
    /\ seen' = Observe(rules')
    /\ UNCHANGED <<holder, pc, args, acc, poisoned, fnVars, mainVars, loopVars, logVars>>

\* The agent after main has started it: the loop spawned, main waiting for ctrl-c.
InitAgent ==
    /\ Fresh
    /\ rules = EmptyTable
    /\ mainpc = "wait"
    /\ looppc = "tick"

NextAgent ==
    \/ \E t \in Callers : \E a \in Attempts : CallerCall(t, a)
    \/ \E t \in Callers : CheckStep(t)
    \/ \E t \in Callers : CallerReturn(t)
    \/ \E r \in ProvisionedRules : upsert_rule(r)
    \/ \E k \in Apps : remove_rule(k)
    \/ Tick
    \/ collect_logs
    \/ send_logs_to_server

SpecAgent == InitAgent /\ [][NextAgent]_vars

\* ----------------------------------------------------------------- claims

\* The rule registered for the app of the last call.
CalledRule == rules[call.app_name]

Registered == call # NoCall /\ call.app_name \in DOMAIN rules

\* C1: for a rule R registered under the call's app name, check_connection
\* returns true exactly when the domain is an element of R.allowed_domains,
\* the ip an element of R.allowed_ips and the protocol an element of
\* R.allowed_protocols, elements being compared for equality.
C1_AllowedIffAllThreeListed ==
    Registered =>
        (verdict <=> /\ call.domain \in Range(CalledRule.allowed_domains)
                     /\ call.ip \in Range(CalledRule.allowed_ips)
                     /\ call.protocol \in Range(CalledRule.allowed_protocols))

\* A call allowed through the second entry of a two-element protocol list.
C1_Witness ==
    /\ Registered
    /\ verdict
    /\ Len(CalledRule.allowed_protocols) = 2
    /\ CalledRule.allowed_protocols[1] # call.protocol

\* C2: a call for an app name with no entry in the table returns false,
\* whatever the domain, ip and protocol are.
C2_UnknownAppDenied ==
    (call # NoCall /\ call.app_name \notin DOMAIN rules) => verdict = FALSE

\* A call for an unregistered app whose domain, ip and protocol are all
\* listed in the rule of another app.
C2_Witness ==
    /\ call # NoCall
    /\ call.app_name \notin DOMAIN rules
    /\ \E b \in DOMAIN rules :
          /\ call.domain \in Range(rules[b].allowed_domains)
          /\ call.ip \in Range(rules[b].allowed_ips)
          /\ call.protocol \in Range(rules[b].allowed_protocols)
    /\ verdict = FALSE

\* C3: a registered rule with an empty allow-list in some dimension denies
\* every call for its app, also when the other two dimensions match.
C3_EmptyListDeniesAll ==
    (/\ Registered
     /\ \/ CalledRule.allowed_domains = <<>>
        \/ CalledRule.allowed_ips = <<>>
        \/ CalledRule.allowed_protocols = <<>>)
        => verdict = FALSE

\* A denied call whose rule has no ips and lists the call's domain and protocol.
C3_Witness ==
    /\ Registered
    /\ CalledRule.allowed_ips = <<>>
    /\ call.domain \in Range(CalledRule.allowed_domains)
    /\ call.protocol \in Range(CalledRule.allowed_protocols)
    /\ verdict = FALSE

\* C4: under any interleaving of rule updates and evaluations, the result of
\* an evaluation is the result against one complete content of the table
\* that existed while the evaluation read it, never against a mix of two.
C4_NoTornRule ==
    \A t \in Callers :
        pc[t] \in {"unlock", "ret"} =>
            \E v \in seen[t] : acc[t] = check_connection(v, args[t])

\* An evaluation that allowed an attempt against a rule replaced since, and
\* whose attempt the replacing rule denies.
C4_Witness ==
    \E t \in Callers :
        /\ pc[t] = "ret"
        /\ acc[t]
        /\ args[t].app_name \in DOMAIN rules
        /\ ~check_connection(rules, args[t])

\* C7: no evaluation waits for the rule-table lock while the shipping loop
\* holds it and is suspended on its tick or is in its send.
C7_NeverBlocksOnShipping ==
    \A t \in Tasks :
        pc[t] = "lock" => ~(holder = LoopTask /\ looppc \in {"tick", "send"})

\* A caller takes the lock while the loop, having collected, is in its send.
C7_Witness ==
    \E t \in Callers :
        /\ pc[t] = "get"
        /\ holder = t
        /\ looppc = "send"
        /\ ticks >= 1

\* C5: each evaluation appends one event carrying its verdict to the log
\* buffer: before the first drain the buffer holds the events of the
\* evaluations made so far, one each, in evaluation order.
C5_OneEventPerEvaluation ==
    ticks = 0 => logBuffer = evaluated

\* C6: shutdown is cooperative: when the process has exited after ctrl-c, the
\* loop had seen the signal at a tick boundary and finished by itself (so not
\* in the middle of a collect/send cycle), rather than being ended from outside.
C6_CooperativeShutdown ==
    mainpc = "exited" => looppc = "finished"

\* C8: retried delivery: once three send attempts have completed, every event
\* buffered before the first attempt has been delivered, exactly once and in
\* its original order.
C8_RetriedDelivery ==
    sends >= 3 => delivered = evaluated

\* C9: the send step is performed only on a tick whose drain returned at least
\* one event; on a tick with an empty buffer the loop goes back to waiting.
C9_NoSendOnEmptyTick ==
    looppc = "send" => batch # <<>>

\* C10: a drain returns all buffered events and leaves the buffer empty, so
\* every recorded event is returned by exactly one drain: after the first
\* drain the events recorded before it are the drained batch, and none is
\* left in the buffer.
C10_DrainReturnsEachEventOnce ==
    (ticks = 1 /\ looppc = "send") => (batch = evaluated /\ logBuffer = <<>>)

\* C11: an evaluation that finds a rule and fails a membership test returns a
\* denial that names the failed dimension, so its result differs from the
\* result the same attempt gets for an unregistered app.
C11_MismatchIdentified ==
    (/\ Registered
     /\ \/ call.domain \notin Range(CalledRule.allowed_domains)
        \/ call.ip \notin Range(CalledRule.allowed_ips)
        \/ call.protocol \notin Range(CalledRule.allowed_protocols))
        => verdict # check_connection(EmptyTable, call)

LoopRunning == looppc \in {"tick", "collect", "send"} /\ ~Over

\* C13: decision evaluations can run while the shipping loop is running: in
\* every state in which the one loop has been started and the process runs, a
\* check_connection call can be started.
C13_DecisionsDuringLoop ==
    LoopRunning => ENABLED MainCall

LoopOrder ==
    /\ looppc = "tick" => looppc' \in {"tick", "collect", "cancelled"}
    /\ looppc = "collect" => looppc' \in {"collect", "send"}
    /\ looppc = "send" => looppc' \in {"send", "tick"}

\* C15: as long as no interrupt arrives the loop ticks again and again, and
\* on every tick collect_logs completes before send_logs_to_server starts
\* and send_logs_to_server completes before the next tick is awaited.
C15_LoopLiveAndSequential ==
    /\ <>sigint \/ []<>(looppc = "collect")
    /\ [][LoopOrder]_vars

\* The loop is in the send of its third tick and no interrupt has arrived.
C15_Witness ==
    /\ ~sigint
    /\ ticks = 3
    /\ sends = 2
    /\ looppc = "send"

C16_TableAlwaysEmpty ==
    /\ DOMAIN rules = {}
    /\ \A a \in Attempts \cup {MainAttempt} : ~check_connection(rules, a)
    /\ pc[MainTask] \in {"unlock", "ret"} => ~acc[MainTask]
    /\ ~allowed
    /\ \A i \in 1..Len(evaluated) : ~evaluated[i].verdict

\* main's call has returned false and the loop is running.
C16_Witness ==
    /\ Len(evaluated) = 1
    /\ ~evaluated[1].verdict
    /\ looppc = "send"

\* C17: check_connection is read-only on the rule table: no step of a task
\* inside check_connection changes the registered app names or any rule's
\* allow-lists.
C17_CheckConnectionReadOnly ==
    [][\A t \in Tasks :
          (pc[t] \in Holding \cup {"lock"} /\ pc'[t] # pc[t]) => rules' = rules]_vars

\* A call has returned allow and the table is as the call found it, rule included.
C17_Witness ==
    \E t \in Callers :
        /\ pc[t] = "ret"
        /\ acc[t]
        /\ seen[t] = {rules}
        /\ args[t].app_name \in DOMAIN rules

\* C18: the rule-table guard is held by at most one task, and only by a task
\* between lock() and the end of check_connection: it is released on both
\* return paths, and whenever a task waits for the lock the holder has a
\* step to take, so the lock is never held for good.
C18_MutexExclusiveAndReleased ==
    /\ holder \in Tasks \cup {NoTask}
    /\ \A t \in Tasks : holder = t <=> pc[t] \in Holding
    /\ (\E t \in Tasks : pc[t] = "lock") =>
          (holder = NoTask \/ ENABLED CheckStep(holder))

\* A caller waits for the lock while another, on the rule-absent path, is
\* about to release it.
C18_Witness ==
    \E t \in Callers : \E u \in Callers :
        /\ pc[t] = "lock"
        /\ holder = u
        /\ pc[u] = "unlock"
        /\ args[u].app_name \notin DOMAIN rules

====
